---- MODULE Spec2Model ----
(***************************************************************************)
(* The slotted-page codec of file/paging.py: Page.pack_cell,               *)
(* Page.unpack_cell_from, PagingFile.read_page and PagingFile.write_page,  *)
(* over a backing file modelled as a flat sequence of bytes.               *)
(*                                                                         *)
(* Bytes are numbers 0..255; struct's big-endian fields are packed and     *)
(* unpacked byte by byte.  Offsets into a buffer are 0-based as in the     *)
(* source; TLA+ sequences are 1-based, hence the "+ 1" in the accessors.   *)
(* Values of 32-bit fields are drawn from below 2^31.                      *)
(***************************************************************************)
EXTENDS Integers, Sequences, FiniteSets, TLC

VARIABLES page_size, file, ret, lastw

vars == <<page_size, file, ret, lastw>>

(***************************************************************************)
(* Bounds of the model.                                                    *)
(***************************************************************************)
MaxPnum == 1

Pnums == 0..MaxPnum

\* page sizes of the three specifications
PageSizes == {16, 46}
BigPageSizes == {4096}
MaxPageSizes == {65536}

(***************************************************************************)
(* struct: big-endian packing of unsigned fields.                          *)
(***************************************************************************)
None == -1

U16Range == 65536

H(n) == <<n \div 256, n % 256>>

I(n) == <<n \div 16777216, (n \div 65536) % 256, (n \div 256) % 256, n % 256>>

unH(buff, off) == buff[off + 1] * 256 + buff[off + 2]

unI(buff, off) ==
    buff[off + 1] * 16777216 + buff[off + 2] * 65536
        + buff[off + 3] * 256 + buff[off + 4]

Zeros(n) == [i \in 1..n |-> 0]

Rep(x, n) == [i \in 1..n |-> x]

\* the concatenation of the byte strings ss[lo..hi], first element first
\* (by halves, to keep the evaluation shallow)
RECURSIVE ConcatRange(_, _, _)
ConcatRange(ss, lo, hi) ==
    IF lo > hi THEN <<>>
    ELSE IF lo = hi THEN ss[lo]
    ELSE LET mid == (lo + hi) \div 2
         IN  ConcatRange(ss, lo, mid) \o ConcatRange(ss, mid + 1, hi)

Concat(ss) == ConcatRange(ss, 1, Len(ss))

\* '>BxHHIIxx'
head_sz == 16

s_page_header_pack(ptype, ncells, poff_start, pnum_right, pnum_parent) ==
    <<ptype, 0>> \o H(ncells) \o H(poff_start) \o I(pnum_right)
        \o I(pnum_parent) \o <<0, 0>>

s_page_offs_size == 2

(***************************************************************************)
(* Page types and the cell classes.                                        *)
(***************************************************************************)
IndexInterior == 2
TableInterior == 5
IndexLeaf == 10
TableLeaf == 13

PageTypes == {IndexInterior, TableInterior, IndexLeaf, TableLeaf}

\* the registry page type -> cell class
_cells(ptype) ==
    CASE ptype = TableLeaf -> "TableLeafCell"
      [] ptype = IndexLeaf -> "TableLeafCell"
      [] ptype = TableInterior -> "TableInteriorCell"
      [] ptype = IndexInterior -> "TableInteriorCell"

\* cell_type._head.size
_head_size(cls) ==
    CASE cls = "IndexLeafCell" -> 2
      [] cls = "TableLeafCell" -> 6
      [] cls = "IndexInteriorCell" -> 6
      [] cls = "TableInteriorCell" -> 8

\* does the class's _head carry the field (a '0s' placeholder otherwise)
_head_has_left_child(cls) == cls \in {"IndexInteriorCell", "TableInteriorCell"}
_head_has_payload_size(cls) == cls # "TableInteriorCell"
_head_has_rowid(cls) == cls \in {"TableLeafCell", "TableInteriorCell"}

\* cell_type._head.pack(left_child, payload_size, rowid) after unnull
_head_pack(cls, left_child, payload_size, rowid) ==
    (IF _head_has_left_child(cls) THEN I(left_child) ELSE <<>>)
        \o (IF _head_has_payload_size(cls) THEN H(payload_size) ELSE <<>>)
        \o (IF _head_has_rowid(cls) THEN I(rowid) ELSE <<>>)

\* null(cell_type._head.unpack_from(buff, offset)): absent fields come back None
_head_unpack_from(cls, buff, offset) ==
    LET o1 == offset
        o2 == o1 + (IF _head_has_left_child(cls) THEN 4 ELSE 0)
        o3 == o2 + (IF _head_has_payload_size(cls) THEN 2 ELSE 0)
    IN  [left_child |-> IF _head_has_left_child(cls) THEN unI(buff, o1) ELSE None,
         payload_size |-> IF _head_has_payload_size(cls) THEN unH(buff, o2) ELSE None,
         rowid |-> IF _head_has_rowid(cls) THEN unI(buff, o3) ELSE None]

(***************************************************************************)
(* The value codec (file/valuetype.py): a packed tuple is its column       *)
(* count, one type code per column, then the column values; every column   *)
(* of the schema used here is a one-byte TINYINT.                          *)
(***************************************************************************)
TINYINT == 4

tuple_types == <<TINYINT>>

vpack(types, tuples) == <<Len(tuples)>> \o types \o tuples

vunpack_ok(payload) == Len(payload) = 1 + 2 * payload[1]

vunpack(payload) == SubSeq(payload, 2 + payload[1], Len(payload))

check_type_compat(exp, act) == exp = act

(***************************************************************************)
(* Cells and pages as the attributes the source keeps.                     *)
(***************************************************************************)
TableLeafCell(rowid, tuples) ==
    [cls |-> "TableLeafCell", left_child |-> None, rowid |-> rowid, tuples |-> tuples]

TableInteriorCell(left_child, rowid) ==
    [cls |-> "TableInteriorCell", left_child |-> left_child, rowid |-> rowid,
     tuples |-> <<>>]

\* IndexLeafCell.__init__ raises TypeError on every call (line 59), and
\* IndexInteriorCell.__init__ calls it: no cell of either class exists.

Page(pagenum, ptype, pnum_right, pnum_parent, cells) ==
    [cur_pnum |-> pagenum, type |-> ptype, pnum_right |-> pnum_right,
     pnum_parent |-> pnum_parent, cells |-> cells]

NoPage == Page(None, 0, 0, 0, <<>>)

\* outcomes of an operation
Ok == "ok"
FileFormatError == "FileFormatError"
StructError == "struct.error"

(***************************************************************************)
(* Page.pack_cell                                                          *)
(***************************************************************************)
store_payload(cell) ==
    IF cell.cls = "TableLeafCell" THEN vpack(tuple_types, cell.tuples) ELSE <<>>

\* can _head.pack take the three values: a field of the layout needs a number
\* in range, a '0s' placeholder needs the empty byte string None stands for
_head_pack_ok(cls, left_child, payload_size, rowid) ==
    /\ _head_has_left_child(cls) <=> left_child # None
    /\ _head_has_payload_size(cls) <=> payload_size # None
    /\ _head_has_rowid(cls) <=> rowid # None
    /\ payload_size < U16Range

pack_cell(ptype, cell) ==
    LET cell_type == _cells(ptype)
        payload == store_payload(cell)
        payload_size == IF payload # <<>> THEN Len(payload) ELSE None
    IN  IF cell_type # cell.cls
        THEN [outcome |-> FileFormatError, msg |-> "Expected a cell type", data |-> <<>>]
        ELSE IF ~_head_pack_ok(cell_type, cell.left_child, payload_size, cell.rowid)
        THEN [outcome |-> StructError, msg |-> "pack", data |-> <<>>]
        ELSE [outcome |-> Ok, msg |-> "",
              data |-> _head_pack(cell_type, cell.left_child, payload_size, cell.rowid)
                          \o payload]

(***************************************************************************)
(* PagingFile.write_page                                                   *)
(***************************************************************************)
\* the loop over the packed cells lo..hi, entered with prev_off: each cell goes
\* below the previous one.  The iterations lo..hi are those of lo..mid followed
\* by those of mid+1..hi (evaluated by halves to keep the evaluation shallow).
RECURSIVE write_layout(_, _, _, _)
write_layout(cells, lo, hi, prev_off) ==
    IF lo > hi
    THEN [prev_off |-> prev_off, body |-> <<>>, offs |-> <<>>]
    ELSE IF lo = hi
    THEN [prev_off |-> prev_off - Len(cells[lo]), body |-> cells[lo],
          offs |-> <<prev_off - Len(cells[lo])>>]
    ELSE LET mid == (lo + hi) \div 2
             a == write_layout(cells, lo, mid, prev_off)
             b == write_layout(cells, mid + 1, hi, a.prev_off)
         IN  [offs |-> a.offs \o b.offs, body |-> b.body \o a.body,
              prev_off |-> b.prev_off]

\* the first cell whose packing raises, 0 if none does
FirstBad(packed) ==
    IF \E i \in DOMAIN packed : packed[i].outcome # Ok
    THEN CHOOSE i \in DOMAIN packed :
            /\ packed[i].outcome # Ok
            /\ \A j \in 1..(i - 1) : packed[j].outcome = Ok
    ELSE 0

\* the mutant: the limit off by one
TooManyCells_gt(n) == n > 256

\* line 363: len(cells) >= 256
TooManyCells(n) == n >= 256

\* the bytes write_page assembles, or the exception it raises before the seek
encode_page(P, page) ==
    LET packed == [i \in DOMAIN page.cells |-> pack_cell(page.type, page.cells[i])]
        bad == FirstBad(packed)
        cells == [i \in DOMAIN packed |-> packed[i].data]
        lay == write_layout(cells, 1, Len(cells), P)
        prev_off == lay.prev_off
        offs == lay.offs
        page_head == s_page_header_pack(page.type, Len(cells), prev_off,
                                        page.pnum_right, page.pnum_parent)
                        \o Concat([i \in DOMAIN offs |-> H(offs[i])])
    IN  IF bad # 0
        THEN [outcome |-> packed[bad].outcome, msg |-> packed[bad].msg, data |-> <<>>]
        ELSE IF TooManyCells(Len(cells))
        THEN [outcome |-> FileFormatError, msg |-> "Too many cells to pack", data |-> <<>>]
        ELSE IF prev_off <= 0
        THEN [outcome |-> FileFormatError, msg |-> "Overflow of cells", data |-> <<>>]
        ELSE IF \/ prev_off >= U16Range
                \/ \E i \in DOMAIN offs : offs[i] >= U16Range
        THEN [outcome |-> StructError, msg |-> "pack", data |-> <<>>]
        ELSE IF prev_off < Len(page_head)
        THEN [outcome |-> FileFormatError, msg |-> "Overflow of cells",
              data |-> page_head \o lay.body]
        ELSE [outcome |-> Ok, msg |-> "",
              data |-> page_head \o Zeros(prev_off - Len(page_head)) \o lay.body]

\* f.seek(pos); f.write(data) on a file opened 'rb+': a gap past the end of the
\* file reads back as zeros
file_write(f, pos, data) ==
    IF pos >= Len(f)
    THEN f \o Zeros(pos - Len(f)) \o data
    ELSE SubSeq(f, 1, pos) \o data \o SubSeq(f, pos + Len(data) + 1, Len(f))

\* the mutant: the seek and the write moved above the last overflow check
store_page_early(f, P, page, enc) ==
    IF enc.data # <<>> THEN file_write(f, page.cur_pnum * P, enc.data) ELSE f

\* the file after write_page: the seek and the write are its last statements
store_page(f, P, page, enc) ==
    IF enc.outcome = Ok THEN file_write(f, page.cur_pnum * P, enc.data) ELSE f

(***************************************************************************)
(* Page.unpack_cell_from and the cells' load_payload                       *)
(***************************************************************************)
NoCell == [cls |-> "", left_child |-> None, rowid |-> None, tuples |-> <<>>]

CellError(outcome, msg) ==
    [outcome |-> outcome, msg |-> msg, cell |-> NoCell, size |-> 0]

\* TableLeafCell.load_payload: "" when the payload loads, else the error raised
load_payload(payload) ==
    IF ~vunpack_ok(payload) THEN "vunpack"
    ELSE LET tuples == vunpack(payload)
         IN  IF Len(tuples) # Len(tuple_types) THEN "Mismatch tuple sizes"
             ELSE IF \E k \in 1..Len(tuples) :
                        ~check_type_compat(tuple_types[k], payload[1 + k])
             THEN "type mismatch"
             ELSE ""

unpack_cell_from(ptype, buff, offset) ==
    LET cell_type == _cells(ptype)
        hsize == _head_size(cell_type)
    IN  IF offset + hsize > Len(buff)
        THEN CellError(StructError, "unpack_from requires a buffer")
        ELSE
        LET head == _head_unpack_from(cell_type, buff, offset)
            poff == offset + hsize
            payload_size == IF head.payload_size = None THEN 0 ELSE head.payload_size
            payload == SubSeq(buff, poff + 1, poff + payload_size)
            loaded == load_payload(payload)
        IN  IF head.payload_size = 0
            THEN CellError(FileFormatError, "Invalid payload size")
            ELSE IF head.payload_size # None /\ payload_size + poff > Len(buff)
            THEN CellError(FileFormatError, "Invalid payload size")
            ELSE IF head.payload_size # None /\ loaded # ""
            THEN CellError(FileFormatError, loaded)
            ELSE [outcome |-> Ok, msg |-> "",
                  cell |-> [cls |-> cell_type, left_child |-> head.left_child,
                            rowid |-> head.rowid,
                            tuples |-> IF head.payload_size # None
                                       THEN vunpack(payload) ELSE <<>>],
                  size |-> payload_size + hsize]

(***************************************************************************)
(* PagingFile.read_page                                                    *)
(***************************************************************************)
\* file.seek(pos) and readn(file, size): the bytes there are, up to size
readn(f, pos, size) ==
    SubSeq(f, pos + 1, IF pos + size <= Len(f) THEN pos + size ELSE Len(f))

\* the mutant: no sentinel, the stored value taken as it is
poff_start_raw(raw) == raw

\* the stored value of poff_start as read_page takes it
poff_start_of(raw) == IF raw = 0 THEN 65536 ELSE raw

ReadError(outcome, msg) == [outcome |-> outcome, msg |-> msg, page |-> NoPage]

CellsError(outcome, msg, prev_off) ==
    [outcome |-> outcome, msg |-> msg, cells |-> <<>>, prev_off |-> prev_off]

\* one iteration of the loop over the slot table, for slot i; the body of the
\* loop reads prev_off and never assigns it
read_cell(ptype, page, i, cell_off_end, prev_off) ==
    LET off == unH(page, head_sz + s_page_offs_size * (i - 1))
        c == unpack_cell_from(ptype, page, off)
    IN  IF off < cell_off_end
        THEN CellsError(FileFormatError, "Invalid cell offset", prev_off)
        ELSE IF c.outcome # Ok
        THEN CellsError(c.outcome, c.msg, prev_off)
        ELSE IF off + c.size > prev_off
        THEN CellsError(FileFormatError, "Overlapping cells or bad offset", prev_off)
        ELSE [outcome |-> Ok, msg |-> "", cells |-> <<c.cell>>, prev_off |-> prev_off]

\* the iterations lo..hi of the loop, entered with prev_off; the first exception
\* ends the loop (evaluated by halves to keep the evaluation shallow)
RECURSIVE read_cells(_, _, _, _, _, _)
read_cells(ptype, page, lo, hi, cell_off_end, prev_off) ==
    IF lo > hi
    THEN [outcome |-> Ok, msg |-> "", cells |-> <<>>, prev_off |-> prev_off]
    ELSE IF lo = hi
    THEN read_cell(ptype, page, lo, cell_off_end, prev_off)
    ELSE LET mid == (lo + hi) \div 2
             a == read_cells(ptype, page, lo, mid, cell_off_end, prev_off)
             b == read_cells(ptype, page, mid + 1, hi, cell_off_end, a.prev_off)
         IN  IF a.outcome # Ok THEN a
             ELSE IF b.outcome # Ok THEN b
             ELSE [outcome |-> Ok, msg |-> "", cells |-> a.cells \o b.cells,
                   prev_off |-> b.prev_off]

read_page(f, P, pagenum) ==
    LET page == readn(f, pagenum * P, P)
        ptype == page[1]
        ncells == unH(page, 2)
        poff_start == poff_start_of(unH(page, 4))
        pnum_right == unI(page, 6)
        pnum_parent == unI(page, 10)
        cell_off_end == head_sz + ncells * s_page_offs_size
        rc == read_cells(ptype, page, 1, ncells, cell_off_end, Len(page))
    IN  IF Len(page) # P
        THEN ReadError(FileFormatError, "Short read")
        ELSE IF Len(page) < head_sz
        THEN ReadError(StructError, "unpack_from requires a buffer")
        ELSE IF ptype \notin PageTypes
        THEN ReadError(FileFormatError, "Invalid page type")
        ELSE IF cell_off_end >= Len(page)
        THEN ReadError(FileFormatError, "Invalid number of cells")
        ELSE IF poff_start < cell_off_end
        THEN ReadError(FileFormatError, "Invalid start offset")
        ELSE IF rc.outcome # Ok
        THEN ReadError(rc.outcome, rc.msg)
        ELSE [outcome |-> Ok, msg |-> "",
              page |-> Page(pagenum, ptype, pnum_right, pnum_parent, rc.cells)]

(***************************************************************************)
(* Inputs: the pages a caller builds and the files a PagingFile is opened  *)
(* on.                                                                     *)
(***************************************************************************)
TLa == TableLeafCell(933, <<4>>)
TLb == TableLeafCell(16909060, <<7>>)
TIa == TableInteriorCell(7, 100)
TIb == TableInteriorCell(16909060, 258)

\* the pointers of the pages built: every byte of the two fields differs
InputPointers == [pnum_right |-> 66052, pnum_parent |-> 259]

\* <<page type, cells>> of the pages written at the small page sizes
SmallLists ==
    { <<TableLeaf, <<>>>>,
      <<TableLeaf, <<TLa, TLb>>>>,
      <<TableLeaf, <<TLa, TLb, TLa>>>>,
      <<TableLeaf, <<TLa, TIa>>>>,
      <<TableInterior, <<TIa, TIb, TIa>>>>,
      <<TableInterior, <<TIa, TIb, TIa, TIb>>>>,
      <<TableInterior, <<TLa>>>>,
      <<IndexLeaf, <<TLb>>>>,
      <<IndexInterior, <<TIb>>>> }

\* at the big page size: pages around the limit of 255 cells
BigLists ==
    { <<TableInterior, Rep(TIa, 255)>>,
      <<TableInterior, Rep(TIb, 256)>>,
      <<TableLeaf, Rep(TLa, 255)>> }

\* at the largest page size a 16-bit offset can address
MaxLists ==
    { <<TableLeaf, <<>>>>,
      <<TableLeaf, <<TLa>>>>,
      <<TableInterior, <<>>>>,
      <<TableInterior, <<TIa, TIb>>>>,
      <<IndexLeaf, <<TLb>>>>,
      <<IndexLeaf, <<TIa>>>> }

InputLists(P) ==
    IF P \in MaxPageSizes THEN MaxLists
    ELSE IF P \in BigPageSizes THEN BigLists
    ELSE SmallLists

InputPages(P) ==
    { Page(n, tc[1], InputPointers.pnum_right, InputPointers.pnum_parent, tc[2]) :
        n \in Pnums, tc \in InputLists(P) }

\* a hand-made page: the header, the slot table, zeros, and tail at the end
raw_page(P, ptype, ncells, poff_start, slots, tail) ==
    LET pre == s_page_header_pack(ptype, ncells, poff_start, InputPointers.pnum_right,
                                     InputPointers.pnum_parent)
                   \o Concat([i \in DOMAIN slots |-> H(slots[i])])
        k == P - Len(tail)
    IN  [i \in 1..P |-> IF i > k THEN tail[i - k]
                        ELSE IF i <= Len(pre) THEN pre[i] ELSE 0]

bytes_of(ptype, cell) == pack_cell(ptype, cell).data

TwoInterior == bytes_of(TableInterior, TIa) \o bytes_of(TableInterior, TIb)

OneLeaf == bytes_of(TableLeaf, TLa)

\* the pages stored in the files the small specifications start from
SmallRawPages(P) ==
    { raw_page(P, TableInterior, 2, P - 16, <<P - 8, P - 16>>, TwoInterior),
      raw_page(P, TableInterior, 2, P - 16, <<P - 8, P - 8>>, TwoInterior),
      raw_page(P, IndexInterior, 2, P - 16, <<P - 8, P - 12>>, TwoInterior),
      raw_page(P, TableInterior, 1, P - 8, <<P - 1>>, TwoInterior),
      raw_page(P, TableInterior, 1, P - 8, <<17>>, TwoInterior),
      raw_page(P, TableInterior, 2, 0, <<P - 8, P - 16>>, TwoInterior),
      raw_page(P, TableInterior, 2, 5, <<P - 8, P - 16>>, TwoInterior),
      raw_page(P, 7, 2, P - 16, <<P - 8, P - 16>>, TwoInterior),
      raw_page(P, TableInterior, (P - 16) \div 2, P - 16, <<>>, TwoInterior),
      raw_page(P, TableInterior, 256, P - 16, <<>>, TwoInterior),
      raw_page(P, TableLeaf, 1, P - 9, <<P - 9>>, OneLeaf),
      raw_page(P, TableLeaf, 1, P - 6, <<P - 6>>, H(0) \o I(933)),
      raw_page(P, TableLeaf, 1, P - 9, <<P - 9>>, H(50) \o I(933) \o <<1, 4, 4>>) }

\* a page of n interior cells, none overlapping another
FullRawPage(P, n) ==
    raw_page(P, TableInterior, n, P - 8 * n, [i \in 1..n |-> P - 8 * i],
             Concat(Rep(bytes_of(TableInterior, TIa), n)))

BigRawPages(P) == { FullRawPage(P, 256) }

MaxRawPages(P) ==
    { raw_page(P, TableLeaf, 0, 0, <<>>, <<>>),
      raw_page(P, TableInterior, 2, 0, <<P - 8, P - 16>>, TwoInterior) }

RawPages(P) ==
    IF P \in MaxPageSizes THEN MaxRawPages(P)
    ELSE IF P \in BigPageSizes THEN BigRawPages(P)
    ELSE SmallRawPages(P)

\* the files opened: empty, one stored page, or a page cut short
InitFiles(P) ==
    {<<>>} \cup RawPages(P)
           \cup { SubSeq(pg, 1, P - 1) : pg \in { raw_page(P, TableLeaf, 0, P, <<>>, <<>>) } }

(***************************************************************************)
(* The state machine.  ret is the outcome of the last call; lastw[n] is    *)
(* the page of the most recent successful write_page at page number n.     *)
(***************************************************************************)
NoRet == [op |-> "none", pnum |-> None, src |-> None, outcome |-> Ok, msg |-> "",
          page |-> NoPage]

InitAt(sizes) ==
    /\ page_size \in sizes
    /\ file \in InitFiles(page_size)
    /\ ret = NoRet
    /\ lastw = [n \in Pnums |-> NoPage]

Init == InitAt(PageSizes)

InitBig == InitAt(BigPageSizes)

InitMax == InitAt(MaxPageSizes)

\* PagingFile.write_page(page); src is the page number the page was read from
\* when the caller relocates it, None when the caller built it
do_write(page, src) ==
    LET enc == encode_page(page_size, page)
    IN  /\ file' = store_page(file, page_size, page, enc)
        /\ ret' = [op |-> "write_page", pnum |-> page.cur_pnum, src |-> src,
                   outcome |-> enc.outcome, msg |-> enc.msg, page |-> page]
        /\ lastw' = IF enc.outcome = Ok THEN [lastw EXCEPT ![page.cur_pnum] = page]
                    ELSE lastw
        /\ UNCHANGED page_size

write_page == \E page \in InputPages(page_size) : do_write(page, None)

\* PagingFile.read_page(pagenum)
read_pagenum(pagenum) ==
    LET r == read_page(file, page_size, pagenum)
    IN  /\ ret' = [op |-> "read_page", pnum |-> pagenum, src |-> None,
                   outcome |-> r.outcome, msg |-> r.msg, page |-> r.page]
        /\ UNCHANGED <<page_size, file, lastw>>

read == \E pagenum \in Pnums : read_pagenum(pagenum)

\* a page read from m, its cur_pnum set to n, written back
relocate ==
    \E m \in Pnums :
        LET r == read_page(file, page_size, m)
        IN  /\ r.outcome = Ok
            /\ \E n \in Pnums \ {m} : do_write([r.page EXCEPT !.cur_pnum = n], m)

Next == write_page \/ read \/ relocate

Spec == Init /\ [][Next]_vars

SpecBig == InitBig /\ [][Next]_vars

SpecMax == InitMax /\ [][Next]_vars

(***************************************************************************)
(* Properties.                                                             *)
(***************************************************************************)
\* the page stored at page number n, as the bytes the file holds there
stored(n) == SubSeq(file, n * page_size + 1, (n + 1) * page_size)

has_page(n) == Len(file) >= (n + 1) * page_size

\* the encoded size of a cell: its header and its payload
cell_size(cell) == _head_size(cell.cls) + Len(store_payload(cell))

RECURSIVE total_size(_, _, _)
total_size(cells, lo, hi) ==
    IF lo > hi THEN 0
    ELSE IF lo = hi THEN cell_size(cells[lo])
    ELSE LET mid == (lo + hi) \div 2
         IN  total_size(cells, lo, mid) + total_size(cells, mid + 1, hi)

\* the variant the specification ties to a page type
variant_of(ptype) ==
    CASE ptype = TableLeaf -> "TableLeafCell"
      [] ptype = IndexLeaf -> "IndexLeafCell"
      [] ptype = TableInterior -> "TableInteriorCell"
      [] ptype = IndexInterior -> "IndexInteriorCell"

\* C1: round trip. A read_page(n) that follows a successful write_page at page
\* number n is accepted and returns the written page: the same type, pnum_right,
\* pnum_parent, and the same cells (left_child, rowid, tuple) in the same order.
C1_RoundTrip ==
    (ret.op = "read_page" /\ lastw[ret.pnum] # NoPage) =>
        /\ ret.outcome = Ok
        /\ ret.page.type = lastw[ret.pnum].type
        /\ ret.page.pnum_right = lastw[ret.pnum].pnum_right
        /\ ret.page.pnum_parent = lastw[ret.pnum].pnum_parent
        /\ ret.page.cells = lastw[ret.pnum].cells

\* C2: overlap detection. read_page returns a Page only when each cell's span
\* [offset, offset + size) ends at or before the start of the span of the cell
\* decoded before it; a stored page with two overlapping spans is rejected.
C2_OverlapRejected ==
    (ret.op = "read_page" /\ ret.outcome = Ok) =>
        LET pg == stored(ret.pnum)
            off(i) == unH(pg, head_sz + s_page_offs_size * (i - 1))
        IN  \A i \in 1..(Len(ret.page.cells) - 1) :
                off(i + 1) + cell_size(ret.page.cells[i + 1]) <= off(i)

\* C3: byte capacity. write_page of a page of n < 256 cells, each of the class of
\* the page's type, fails with a Format Error when the cells' total encoded size
\* exceeds P - 16 - 2n, and writes the page when it does not.
C3_ByteCapacity ==
    LET cells == ret.page.cells
        n == Len(cells)
    IN  (/\ ret.op = "write_page"
         /\ n < 256
         /\ \A i \in 1..n : cells[i].cls = _cells(ret.page.type)) =>
            IF total_size(cells, 1, n) > page_size - 16 - 2 * n
            THEN ret.outcome = FileFormatError
            ELSE ret.outcome = Ok /\ has_page(ret.pnum)

\* C4: cell-count capacity. write_page of a page of 256 or more cells fails with
\* a Format Error; no page of at most 255 cells is rejected for its cell count.
C4_CellCount ==
    ret.op = "write_page" =>
        /\ Len(ret.page.cells) >= 256 => ret.outcome = FileFormatError
        /\ ret.msg = "Too many cells to pack" => Len(ret.page.cells) >= 256

\* a page of 256 cells is refused for its count while a page of 255 cells has
\* been written
C4_Witness ==
    /\ ret.op = "write_page"
    /\ Len(ret.page.cells) = 256
    /\ ret.msg = "Too many cells to pack"
    /\ \E n \in Pnums : Len(lastw[n].cells) = 255

\* C5: variant matching. write_page fails with a Format Error when a cell is
\* not of the variant tied to the page's type (TableLeafCell on TableLeaf,
\* IndexLeafCell on IndexLeaf, TableInteriorCell on TableInterior,
\* IndexInteriorCell on IndexInterior), so that a written page holds only cells
\* of its own type; cells of that variant pass the variant check.
C5_VariantMatch ==
    ret.op = "write_page" =>
        IF \E i \in DOMAIN ret.page.cells :
                ret.page.cells[i].cls # variant_of(ret.page.type)
        THEN ret.outcome = FileFormatError
        ELSE ret.msg # "Expected a cell type"

\* C6: single error kind on read. read_page returns a Page or fails with a
\* Format Error, whatever the file holds.
C6_SingleErrorKind ==
    ret.op = "read_page" => ret.outcome \in {Ok, FileFormatError}

\* C7: cell-count invariant. Every Page read_page returns holds at most 255
\* cells, and a stored page whose cell-count field is 256 or more is rejected
\* with a Format Error.
C7_AtMost255 ==
    ret.op = "read_page" =>
        /\ ret.outcome = Ok => Len(ret.page.cells) <= 255
        /\ (has_page(ret.pnum) /\ unH(stored(ret.pnum), 2) >= 256)
                => ret.outcome = FileFormatError

\* C8: write target and relocation. A successful write_page(page) replaces
\* exactly the P bytes at page.cur_pnum * P and leaves every other byte of the
\* file as it was; read_page of that page number then returns the written page
\* with cur_pnum set to it; and when the page came from page number m, page m
\* still reads as before.
C8_WriteTarget ==
    [][ (ret'.op = "write_page" /\ ret'.outcome = Ok) =>
            LET n == ret'.pnum
                P == page_size
                r == read_page(file', P, n)
            IN  /\ Len(file') = (IF Len(file) > (n + 1) * P THEN Len(file)
                                 ELSE (n + 1) * P)
                /\ \A i \in 1..Len(file) :
                        (i <= n * P \/ i > (n + 1) * P) => file'[i] = file[i]
                /\ r.outcome = Ok
                /\ r.page = ret'.page
                /\ r.page.cur_pnum = n
                /\ ret'.src # None =>
                        read_page(file', P, ret'.src) = read_page(file, P, ret'.src)
      ]_vars

\* C9: sentinel. read_page takes a stored poff_start of 0 as 65536 and every
\* other stored value as itself: a page that passes the checks before it is
\* rejected for its start offset exactly when the stored value is not 0 and is
\* smaller than the end of the slot table.
C9_Sentinel ==
    (/\ ret.op = "read_page"
     /\ has_page(ret.pnum)
     /\ page_size >= head_sz) =>
        LET pg == stored(ret.pnum)
            raw == unH(pg, 4)
            cell_off_end == head_sz + unH(pg, 2) * s_page_offs_size
        IN  (pg[1] \in PageTypes /\ cell_off_end < page_size) =>
                (ret.msg = "Invalid start offset"
                    <=> (raw # 0 /\ raw < cell_off_end))

\* a page whose stored poff_start is 0 has been read and returned
C9_Witness ==
    /\ ret.op = "read_page"
    /\ ret.outcome = Ok
    /\ has_page(ret.pnum)
    /\ unH(stored(ret.pnum), 4) = 0
    /\ Len(ret.page.cells) > 0

\* C10: a write_page that fails with a Format Error leaves every byte of the
\* file as it was.
C10_FailedWriteKeepsFile ==
    [][ (ret'.op = "write_page" /\ ret'.outcome = FileFormatError) => file' = file ]_vars

\* a write that overflows the page has failed on a page number that holds an
\* earlier write
C10_Witness ==
    /\ ret.op = "write_page"
    /\ ret.outcome = FileFormatError
    /\ ret.msg = "Overflow of cells"
    /\ lastw[ret.pnum] # NoPage
    /\ has_page(ret.pnum)

====
